---- MODULE Spec2Model ----
(***************************************************************************)
(* ratatop (src/apps/ratatop/src/app.rs): a terminal dashboard that        *)
(* samples process and CPU telemetry once per frame, keeps a CPU history   *)
(* for a chart, filters and sorts the process table by a search text, and  *)
(* routes key presses to a table cursor, a search box and a running flag.  *)
(*                                                                         *)
(* Text is a sequence of one-character strings.  A cpu percentage is kept  *)
(* in tenths of a percent (105 is 10.5), which is exact for the values the *)
(* model uses.  The library behaviour the program relies on is modelled at *)
(* the call that uses it: ratatui's TableState and Table rendering,        *)
(* tui_textarea's key handling, the terminal's frame counter.  The         *)
(* terminal is assumed large enough for the table to have a non-empty      *)
(* inner area.                                                             *)
(***************************************************************************)
EXTENDS Integers, Sequences, FiniteSets, TLC

VARIABLES
    pc,          \* position in main/run: "start", "draw", "events", "done"
                 \* (run has returned), "ended" (main has returned)
    running,     \* App.running
    frameCount,  \* the terminal's frame counter, read by frame.count()
    procs,       \* system.processes(), in the map's iteration order
    globalCpu,   \* system.global_cpu_usage(), in tenths of a percent
    cpu,         \* App.cpu: the history, a sequence of <<x, y>>
    selected,    \* table_state.selected(): <<>> is None, <<i>> is Some(i)
    textarea,    \* App.textarea: [lines, row, col]
    search,      \* App.search
    ev,          \* the event last taken by handle_crossterm_events
    drawn,       \* the table as the last draw pass rendered it: [rows, selected]
    shown,       \* the table as the draw pass before that rendered it
    result,      \* what run returned: "none" while it runs, "ok", "err"
    restored,    \* how many times main has called ratatui::restore()
    status,      \* what main returned: "none" while it runs, "ok", "err"
    telemetry,   \* the calls made on the telemetry source: [full, cpuCalls],
                 \* the frame counts of the refresh_processes calls and the
                 \* number of refresh_cpu_all calls
    \* tomato_todo (src/apps/tomato_todo/src/main.rs)
    todoPc,      \* position in run: "draw", "read", "done" (run has returned),
                 \* "panicked" (Vec::remove was called past the end)
    items,       \* AppState.items: a sequence of [is_done, description]
    list_state,  \* AppState.list_state.selected(): <<>> is None, <<i>> is Some(i)
    is_add_new,  \* AppState.is_add_new: the add-new form is open
    input_value, \* AppState.input_value
    \* background_process (src/apps/background_process/src/main.rs)
    mainPc,      \* the main thread: "recv" (in the loop of App::run), "returned"
                 \* (run has returned and dropped rx), "restored", "exited"
    app,         \* App: [exit, progress_bar_color, background_progress]
    queue,       \* the events sent on the channel and not yet received
    inputPc,     \* the input thread: "loop", "panicked"
    progressPc,  \* the progress thread: "loop", "panicked"
    progress,    \* the progress thread's local progress, in hundredths
    appResult    \* what App::run returned: "none" while it runs, "ok", "err"

ratatopVars == <<pc, running, frameCount, procs, globalCpu, cpu, selected, textarea,
                 search, ev, drawn, shown, result, restored, status, telemetry>>

todoVars == <<todoPc, items, list_state, is_add_new, input_value>>

backgroundVars == <<mainPc, app, queue, inputPc, progressPc, progress, appResult>>

vars == <<ratatopVars, todoVars, backgroundVars>>

----------------------------------------------------------------------------
(* Bounds of the model *)

MaxFrames == 5       \* draw passes of a run under Spec
MaxLongFrames == 302 \* draw passes of a run under SpecLong
MaxText == 2         \* characters held by the search box
MaxLines == 2        \* lines held by the search box
MaxProcs == 3        \* processes in a process table
MaxRefreshFrames == 62 \* draw passes of a run under SpecRefresh
MaxItems == 2        \* items of the todo list
MaxInput == 1        \* characters held by the add-new form
MaxSelect == 3       \* the furthest j moves the list cursor while the form is open
MaxQueue == 2        \* events waiting in the channel of background_process

(* Program constants *)

FULL_REFRESH_PERIOD == 60
(* The history capacity the design asks for; the program defines none. *)
CAPACITY == 300

(* background_process: the progress thread's step and its ceiling, in
   hundredths (0.01 and 1.0) *)
Increment == 1
FullProgress == 100

(* usize::MAX, the index select_previous gives an unselected table; the
   largest 32-bit signed number stands for it *)
UsizeMax == 2147483647

----------------------------------------------------------------------------
(* Option<usize> *)

None == <<>>
Some(i) == <<i>>
IsSome(o) == o # <<>>
Unwrap(o) == o[1]

----------------------------------------------------------------------------
(* Strings *)

Digits == <<"0", "1", "2", "3", "4", "5", "6", "7", "8", "9">>

DigitChar(d) == Digits[d + 1]

IsDigit(c) == \E d \in 0..9 : Digits[d + 1] = c

DigitVal(c) == CHOOSE d \in 0..9 : Digits[d + 1] = c

(* usize/u32 Display: decimal digits, most significant first *)
RECURSIVE Str(_)
Str(n) == IF n < 10 THEN <<DigitChar(n)>>
          ELSE Append(Str(n \div 10), DigitChar(n % 10))

(* f32 Display of a value given in tenths: no fraction when it is whole *)
F32Str(t) == IF t % 10 = 0 THEN Str(t \div 10)
             ELSE Str(t \div 10) \o <<".">> \o <<DigitChar(t % 10)>>

(* decimal digits to a number; -1 when the text is not all digits or empty *)
RECURSIVE ParseNat(_)
ParseNat(s) ==
    IF Len(s) = 0 THEN -1
    ELSE IF ~IsDigit(s[Len(s)]) THEN -1
    ELSE IF Len(s) = 1 THEN DigitVal(s[1])
    ELSE LET hi == ParseNat(SubSeq(s, 1, Len(s) - 1))
         IN  IF hi < 0 THEN -1 ELSE hi * 10 + DigitVal(s[Len(s)])

(* str::parse::<f32>().unwrap_or(0.0), in tenths, for texts with at most one
   fraction digit *)
ParseF32(s) ==
    LET dots == {i \in 1..Len(s) : s[i] = "."}
    IN  IF dots = {} THEN
            (IF ParseNat(s) < 0 THEN 0 ELSE ParseNat(s) * 10)
        ELSE LET d  == CHOOSE i \in dots : TRUE
                 ip == ParseNat(SubSeq(s, 1, d - 1))
                 fp == ParseNat(SubSeq(s, d + 1, Len(s)))
             IN  IF Cardinality(dots) > 1 \/ ip < 0 \/ fp < 0 \/ Len(s) - d # 1
                 THEN 0
                 ELSE ip * 10 + fp

(* char::to_lowercase for the letters of the model *)
ToLowerChar(c) == CASE c = "J" -> "j"
                    [] c = "S" -> "s"
                    [] OTHER -> c

(* str::to_lowercase *)
ToLowercase(s) == [i \in 1..Len(s) |-> ToLowerChar(s[i])]

(* str::contains: needle is a contiguous substring of hay *)
Contains(hay, needle) ==
    \E i \in 0..(Len(hay) - Len(needle)) :
        SubSeq(hay, i + 1, i + Len(needle)) = needle

----------------------------------------------------------------------------
(* The process table and the filter/sort step of render_processes *)

Proc(pid, name, c) == [pid |-> pid, name |-> name, cpu |-> c]

(* the processes the telemetry source may report *)
Pool == { Proc(3, <<"s", "J">>, 500),
          Proc(5, <<"j">>, 500),
          Proc(17, <<"k">>, 105) }

(* a process table: distinct processes in the iteration order of the map *)
TablesOf(pool, n) ==
    { t \in UNION { [1..k -> pool] : k \in 1..n } :
        \A i, j \in 1..Len(t) : i # j => t[i].pid # t[j].pid }

Tables == TablesOf(Pool, MaxProcs)

(* the table of a machine where nothing changes between refreshes *)
IdleTables == TablesOf({ p \in Pool : p.pid # 3 }, MaxProcs)

CpuLevels == {250}

IdleLevels == {0}

(* the aggregate cpu of a machine whose load changes from frame to frame *)
LoadLevels == {250, 1000}

(* vec![pid.to_string(), name, cpu.to_string()] *)
Cells(p) == <<Str(p.pid), p.name, F32Str(p.cpu)>>

RowsOf(ps) == [i \in 1..Len(ps) |-> Cells(ps[i])]

(* the sort key of a row: its third cell parsed back to a number *)
SortKey(row) == ParseF32(row[3])

(* the comparator b.partial_cmp(&a): TRUE when a must stay before b *)
NotAfter(a, b) == SortKey(a) >= SortKey(b)

(* one step of a stable sort: r, which followed every row of sorted in the
   input, goes behind the rows that must stay before it *)
InsertRow(sorted, r) ==
    LET k == Cardinality({ i \in 1..Len(sorted) : NotAfter(sorted[i], r) })
    IN  SubSeq(sorted, 1, k) \o <<r>> \o SubSeq(sorted, k + 1, Len(sorted))

(* rows.sort_by(..): stable *)
RECURSIVE SortRows(_)
SortRows(rows) ==
    IF Len(rows) <= 1 THEN rows
    ELSE InsertRow(SortRows(SubSeq(rows, 1, Len(rows) - 1)), rows[Len(rows)])

(* a filter that compares without folding case *)
RowMatchesCaseSensitive(row, text) ==
    \E i \in 1..Len(row) : Contains(row[i], text)

(* the predicate of rows.retain(..) *)
RowMatches(row, text) ==
    \E i \in 1..Len(row) : Contains(ToLowercase(row[i]), ToLowercase(text))

(* a retain that collects the matching rows last to first *)
RetainReversing(rows, text) ==
    LET kept == SelectSeq(rows, LAMBDA row : RowMatches(row, text))
    IN  [i \in 1..Len(kept) |-> kept[Len(kept) + 1 - i]]

Retain(rows, text) == SelectSeq(rows, LAMBDA row : RowMatches(row, text))

(* the rows render_processes hands to the table *)
RenderRows(ps, text) == Retain(SortRows(RowsOf(ps)), text)

----------------------------------------------------------------------------
(* TableState and the table's stateful render *)

SatSub(a, b) == IF a >= b THEN a - b ELSE 0

SatAdd(a, b) == IF a >= UsizeMax - b THEN UsizeMax ELSE a + b

(* a select_next that steps over a row, as two j handled before one draw would *)
SelectNextTwice(sel) == Some(IF IsSome(sel) THEN SatAdd(Unwrap(sel), 2) ELSE 1)

SelectNext(sel) == Some(IF IsSome(sel) THEN SatAdd(Unwrap(sel), 1) ELSE 0)

SelectPrevious(sel) == Some(IF IsSome(sel) THEN SatSub(Unwrap(sel), 1) ELSE UsizeMax)

(* a render that leaves a selection past the end where it is *)
TableRenderNoClamp(sel, n) == IF n = 0 THEN None ELSE sel

(* Table::render on n rows: a selection past the end moves to the last row,
   and an empty table drops the selection *)
TableRender(sel, n) ==
    LET clamped == IF IsSome(sel) /\ Unwrap(sel) >= n THEN Some(SatSub(n, 1)) ELSE sel
    IN  IF n = 0 THEN None ELSE clamped

----------------------------------------------------------------------------
(* The search box: a TextArea with its cursor *)

EmptyTextArea == [lines |-> << <<>> >>, row |-> 1, col |-> 0]

(* textarea.lines().first().unwrap() *)
QueryText(ta) == ta.lines[1]

RECURSIVE SumLen(_)
SumLen(ls) == IF Len(ls) = 0 THEN 0 ELSE Len(ls[1]) + SumLen(Tail(ls))

TextLen(ta) == SumLen(ta.lines)

InsertChar(ta, c) ==
    LET line == ta.lines[ta.row]
        new  == SubSeq(line, 1, ta.col) \o <<c>> \o SubSeq(line, ta.col + 1, Len(line))
    IN  [ta EXCEPT !.lines[ta.row] = new, !.col = ta.col + 1]

(* an editor that deletes the character after the cursor instead *)
DeleteNextChar(ta) ==
    LET line == ta.lines[ta.row]
    IN  [ta EXCEPT !.lines[ta.row] =
                       SubSeq(line, 1, ta.col) \o SubSeq(line, ta.col + 2, Len(line))]

DeleteChar(ta) ==
    LET line == ta.lines[ta.row]
    IN  IF ta.col > 0 THEN
            [ta EXCEPT !.lines[ta.row] =
                           SubSeq(line, 1, ta.col - 1) \o SubSeq(line, ta.col + 1, Len(line)),
                       !.col = ta.col - 1]
        ELSE IF ta.row > 1 THEN
            LET prev == ta.lines[ta.row - 1]
            IN  [lines |-> SubSeq(ta.lines, 1, ta.row - 2) \o <<prev \o line>>
                           \o SubSeq(ta.lines, ta.row + 1, Len(ta.lines)),
                 row |-> ta.row - 1,
                 col |-> Len(prev)]
        ELSE ta

InsertNewline(ta) ==
    LET line == ta.lines[ta.row]
    IN  [lines |-> SubSeq(ta.lines, 1, ta.row - 1)
                   \o <<SubSeq(line, 1, ta.col), SubSeq(line, ta.col + 1, Len(line))>>
                   \o SubSeq(ta.lines, ta.row + 1, Len(ta.lines)),
         row |-> ta.row + 1,
         col |-> 0]

CursorBack(ta) ==
    IF ta.col > 0 THEN [ta EXCEPT !.col = ta.col - 1]
    ELSE IF ta.row > 1 THEN [ta EXCEPT !.row = ta.row - 1, !.col = Len(ta.lines[ta.row - 1])]
    ELSE ta

----------------------------------------------------------------------------
(* Terminal events *)

Key(code, ch, ctrl, kind) ==
    [type |-> "Key", code |-> code, ch |-> ch, ctrl |-> ctrl, kind |-> kind]

Press(code) == Key(code, "", FALSE, "Press")

CharKey(c) == Key("Char", c, FALSE, "Press")

CtrlC == Key("Char", "c", TRUE, "Press")

NoEvent == [type |-> "Timeout", code |-> "", ch |-> "", ctrl |-> FALSE, kind |-> ""]

Mouse == [type |-> "Mouse", code |-> "", ch |-> "", ctrl |-> FALSE, kind |-> ""]

Resize == [type |-> "Resize", code |-> "", ch |-> "", ctrl |-> FALSE, kind |-> ""]

Chars == {"s", "j", "k", "q", "J", "1"}

AllEvents ==
    { CharKey(c) : c \in Chars }
    \cup { CtrlC, Press("Esc"), Press("Backspace"), Press("Enter"), Press("Left"),
           Press("F1") }
    \cup { Key("Char", "q", FALSE, "Release"), Key("Char", "s", FALSE, "Repeat"),
           Key("Esc", "", FALSE, "Release") }
    \cup { Mouse, Resize, NoEvent }

IdleEvents == { CharKey("j"), CharKey("k"), CharKey("q"), NoEvent }

(* the keys of an operator who searches and navigates *)
SearchEvents ==
    { CharKey("s"), CharKey("j"), CharKey("k"), CharKey("q"), Press("Backspace"), NoEvent }

(* a guard that forgets the kind of the key event *)
IsAnyKey(e) == e.type = "Key"

IsPress(e) == e.type = "Key" /\ e.kind = "Press"

IsChar(e, c) == e.code = "Char" /\ e.ch = c

(* TextArea::input: what the search box does with a key *)
TextAreaInput(ta, key) ==
    CASE key.code = "Char" /\ ~key.ctrl -> InsertChar(ta, key.ch)
      [] key.code = "Backspace"         -> DeleteChar(ta)
      [] key.code = "Enter"             -> InsertNewline(ta)
      [] key.code = "Left"              -> CursorBack(ta)
      [] OTHER                          -> ta

(* a match without the Ctrl-C arm *)
IsQuitKeyNoCtrlC(key) == key.code = "Esc" \/ IsChar(key, "q")

(* the arms of the match in on_key_event *)
IsQuitKey(key) ==
    \/ key.code = "Esc"
    \/ IsChar(key, "q")
    \/ key.ctrl /\ (IsChar(key, "c") \/ IsChar(key, "C"))

IsToggleKey(key) == ~IsQuitKey(key) /\ IsChar(key, "s")

IsNextKey(key) == ~IsQuitKey(key) /\ IsChar(key, "j")

IsPreviousKey(key) == ~IsQuitKey(key) /\ IsChar(key, "k")

----------------------------------------------------------------------------
(* on_key_event, field by field *)

(* a handler that feeds the search box in either mode *)
KeyTextareaAnyMode(ta, srch, key) == TextAreaInput(ta, key)

KeyTextarea(ta, srch, key) == IF srch THEN TextAreaInput(ta, key) ELSE ta

KeyRunning(run, key) == IF IsQuitKey(key) THEN FALSE ELSE run

KeySearch(srch, key) == IF IsToggleKey(key) THEN ~srch ELSE srch

(* a handler with the two navigation keys exchanged *)
KeySelectedSwapped(sel, key) ==
    IF IsNextKey(key) THEN SelectPrevious(sel)
    ELSE IF IsPreviousKey(key) THEN SelectNext(sel)
    ELSE sel

KeySelected(sel, key) ==
    IF IsNextKey(key) THEN SelectNext(sel)
    ELSE IF IsPreviousKey(key) THEN SelectPrevious(sel)
    ELSE sel

OnKeyEvent(key) ==
    /\ textarea' = KeyTextarea(textarea, search, key)
    /\ running' = KeyRunning(running, key)
    /\ search' = KeySearch(search, key)
    /\ selected' = KeySelected(selected, key)

(* the search box of the model holds MaxText characters on MaxLines lines:
   a key that would exceed that is not offered *)
Offered(e) ==
    IsPress(e) /\ search =>
        /\ (e.code = "Char" /\ ~e.ctrl) => TextLen(textarea) < MaxText
        /\ e.code = "Enter" => Len(textarea.lines) < MaxLines

----------------------------------------------------------------------------
(* The draw pass, step by step *)

(* a cadence test that skips the first frame *)
IsTickAfterFirst(count) == count > 0 /\ count % FULL_REFRESH_PERIOD = 0

(* a cadence test that is off by one frame *)
IsTickOffByOne(count) == count % FULL_REFRESH_PERIOD = 1

IsFullRefreshTick(count) == count % FULL_REFRESH_PERIOD = 0

(* a refresh of the process table in every draw pass *)
RefreshProcessesAlways(count, old, tables) == tables

(* what system.processes() may hold after the refresh step of a draw pass:
   refresh_processes runs on a full-refresh tick only *)
RefreshProcesses(count, old, tables) == IF IsFullRefreshTick(count) THEN tables ELSE {old}

(* a push at the front of the history *)
HistoryPushFront(history, count, value) == <<<<count, value>>>> \o history

(* a push that sits inside the full-refresh branch *)
HistoryPushOnTicks(history, count, value) ==
    IF IsFullRefreshTick(count) THEN Append(history, <<count, value>>) ELSE history

(* self.cpu.push((frame.count() as f64, global_cpu_usage() as f64)) *)
HistoryPush(history, count, value) == Append(history, <<count, value>>)

(* the calls a draw pass makes on the telemetry source *)
TelemetryCalls(log, count) ==
    [full     |-> IF IsFullRefreshTick(count) THEN Append(log.full, count) ELSE log.full,
     cpuCalls |-> log.cpuCalls + 1]

(* a closure that pushes the history sample before it refreshes the cpu *)
DrawClosurePushFirst(tables, levels) ==
    \E ps \in RefreshProcesses(frameCount, procs, tables), level \in levels :
        \E rows \in {RenderRows(ps, QueryText(textarea))} :
            \E sel \in {TableRender(selected, Len(rows))} :
                /\ procs' = ps
                /\ globalCpu' = level
                /\ cpu' = HistoryPush(cpu, frameCount, globalCpu)
                /\ selected' = sel
                /\ drawn' = [rows |-> rows, selected |-> sel]
                /\ shown' = drawn
                /\ telemetry' = TelemetryCalls(telemetry, frameCount)

(* the closure handed to terminal.draw: refresh, history push, self.draw *)
DrawClosure(tables, levels) ==
    \E ps \in RefreshProcesses(frameCount, procs, tables), level \in levels :
        \E rows \in {RenderRows(ps, QueryText(textarea))} :
            \E sel \in {TableRender(selected, Len(rows))} :
                /\ procs' = ps
                /\ globalCpu' = level
                /\ cpu' = HistoryPush(cpu, frameCount, level)
                /\ selected' = sel
                /\ drawn' = [rows |-> rows, selected |-> sel]
                /\ shown' = drawn
                /\ telemetry' = TelemetryCalls(telemetry, frameCount)

DrawPass(tables, levels, maxFrames) ==
    /\ pc = "draw"
    /\ running
    /\ frameCount < maxFrames
    /\ DrawClosure(tables, levels)
    /\ frameCount' = frameCount + 1
    /\ pc' = "events"
    /\ UNCHANGED <<running, textarea, search, ev, result, restored, status>>
    /\ UNCHANGED <<todoVars, backgroundVars>>

(* terminal.draw(..)? returning an error: before the closure ran (resizing
   the terminal failed) or after it (writing the frame out failed); the frame
   is not counted and run returns the error *)
DrawFail(tables, levels, maxFrames) ==
    /\ pc = "draw"
    /\ running
    /\ frameCount < maxFrames
    /\ \/ UNCHANGED <<procs, globalCpu, cpu, selected, drawn, shown, telemetry>>
       \/ DrawClosure(tables, levels)
    /\ result' = "err"
    /\ pc' = "done"
    /\ UNCHANGED <<running, frameCount, textarea, search, ev, restored, status>>
    /\ UNCHANGED <<todoVars, backgroundVars>>

HandleCrosstermEvents(events) ==
    /\ pc = "events"
    /\ \E e \in events :
        /\ Offered(e)
        /\ ev' = e
        /\ IF IsPress(e) THEN OnKeyEvent(e)
           ELSE UNCHANGED <<textarea, running, search, selected>>
    /\ pc' = "draw"
    /\ UNCHANGED <<frameCount, procs, globalCpu, cpu, drawn, shown, result, restored,
                   status, telemetry>>
    /\ UNCHANGED <<todoVars, backgroundVars>>

----------------------------------------------------------------------------
(* tomato_todo: a todo list with an add-new form *)

TodoItem(desc) == [is_done |-> FALSE, description |-> desc]

(* List's stateful render on n items: an empty list drops the selection, and
   a selection past the end moves to the last item *)
ListRender(sel, n) ==
    IF n = 0 THEN None
    ELSE IF IsSome(sel) /\ Unwrap(sel) >= n THEN Some(n - 1) ELSE sel

(* render: the form when it is open, else the list *)
Render(sel, addNew, its) == IF addNew THEN sel ELSE ListRender(sel, Len(its))

AppState == [items |-> items, list_state |-> list_state, is_add_new |-> is_add_new,
             input_value |-> input_value]

(* handle_add_new: the form's action and the input value it leaves *)
HandleAddNew(key, value) ==
    CASE key.code = "Char"      -> [action |-> "None", value |-> Append(value, key.ch)]
      [] key.code = "Backspace" ->
            [action |-> "None",
             value  |-> IF value = <<>> THEN value ELSE SubSeq(value, 1, Len(value) - 1)]
      [] key.code = "Esc"       -> [action |-> "Escape", value |-> value]
      [] key.code = "Enter"     -> [action |-> "Submit", value |-> value]
      [] OTHER                  -> [action |-> "None", value |-> value]

(* run, the branch taken while the form is open *)
FormStep(st, key) ==
    IF ~st.is_add_new THEN st
    ELSE LET form == HandleAddNew(key, st.input_value)
         IN  CASE form.action = "Submit" ->
                    [st EXCEPT !.is_add_new = FALSE,
                               !.items = Append(@, TodoItem(form.value)),
                               !.input_value = <<>>]
               [] form.action = "Escape" ->
                    [st EXCEPT !.is_add_new = FALSE, !.input_value = <<>>]
               [] OTHER -> [st EXCEPT !.input_value = form.value]

(* Vec::remove(index), for an index inside the vector *)
Remove(its, index) ==
    SubSeq(its, 1, index) \o SubSeq(its, index + 2, Len(its))

(* handle_key: the state it leaves, whether it asks to quit, and whether
   items.remove was called with an index past the end *)
HandleKey(st, key) ==
    LET sel  == st.list_state
        keep == [st |-> st, quit |-> FALSE, panic |-> FALSE]
    IN  CASE key.code = "Esc" -> [keep EXCEPT !.quit = TRUE]
          [] key.code = "Enter" ->
                IF IsSome(sel) /\ Unwrap(sel) < Len(st.items)
                THEN [keep EXCEPT !.st.items[Unwrap(sel) + 1].is_done = ~@]
                ELSE keep
          [] IsChar(key, "j") -> [keep EXCEPT !.st.list_state = SelectNext(sel)]
          [] IsChar(key, "k") -> [keep EXCEPT !.st.list_state = SelectPrevious(sel)]
          [] IsChar(key, "D") ->
                IF ~IsSome(sel) THEN keep
                ELSE IF Unwrap(sel) < Len(st.items)
                THEN [keep EXCEPT !.st.items = Remove(@, Unwrap(sel))]
                ELSE [keep EXCEPT !.panic = TRUE]
          [] IsChar(key, "A") -> [keep EXCEPT !.st.is_add_new = TRUE]
          [] OTHER -> keep

TodoChars == {"j", "k", "D", "A", "x"}

TodoEvents ==
    { CharKey(c) : c \in TodoChars }
    \cup { Press("Enter"), Press("Esc"), Press("Backspace"), Press("F1"), Mouse }

(* the model holds MaxInput characters and MaxItems items, and moves the
   cursor with j up to MaxSelect and with k only from a cursor of at most
   MaxSelect: a key that would exceed that is not offered *)
TodoOffered(e) ==
    /\ (is_add_new /\ e.code = "Char") => Len(input_value) < MaxInput
    /\ (is_add_new /\ e.code = "Enter") => Len(items) < MaxItems
    /\ (IsChar(e, "j") /\ IsSome(list_state)) => Unwrap(list_state) < MaxSelect
    /\ (IsChar(e, "k") /\ IsSome(list_state)) => Unwrap(list_state) <= MaxSelect

(* AppState::default() *)
TodoInit ==
    /\ todoPc = "draw"
    /\ items = <<>>
    /\ list_state = None
    /\ is_add_new = FALSE
    /\ input_value = <<>>

(* terminal.draw(|f| render(f, app_state)) *)
TodoDraw ==
    /\ todoPc = "draw"
    /\ list_state' = Render(list_state, is_add_new, items)
    /\ todoPc' = "read"
    /\ UNCHANGED <<items, is_add_new, input_value>>
    /\ UNCHANGED <<ratatopVars, backgroundVars>>

(* event::read() and what run does with the event *)
TodoRead(events) ==
    /\ todoPc = "read"
    /\ \E e \in events :
        /\ TodoOffered(e)
        /\ IF e.type # "Key"
           THEN /\ todoPc' = "draw"
                /\ UNCHANGED <<items, list_state, is_add_new, input_value>>
           ELSE \E r \in {HandleKey(FormStep(AppState, e), e)} :
                /\ items' = r.st.items
                /\ list_state' = r.st.list_state
                /\ is_add_new' = r.st.is_add_new
                /\ input_value' = r.st.input_value
                /\ todoPc' = IF r.panic THEN "panicked"
                             ELSE IF r.quit THEN "done" ELSE "draw"
    /\ UNCHANGED <<ratatopVars, backgroundVars>>

(* terminal.draw(..)? or event::read()? returning an error: run returns it *)
TodoFail ==
    /\ todoPc \in {"draw", "read"}
    /\ todoPc' = "done"
    /\ UNCHANGED <<items, list_state, is_add_new, input_value>>
    /\ UNCHANGED <<ratatopVars, backgroundVars>>

----------------------------------------------------------------------------
(* background_process: two producer threads and the main loop on one channel *)

(* enum Event *)
InputEvent(key) == [kind |-> "Input", key |-> key, value |-> 0]

ProgressEvent(p) == [kind |-> "Progress", key |-> NoEvent, value |-> p]

BackgroundKeys ==
    { CharKey("q"), CharKey("c"), CharKey("x"), Key("Char", "q", FALSE, "Release") }

(* App::handle_key_event *)
HandleKeyEvent(a, key) ==
    IF key.kind = "Press" /\ IsChar(key, "q") THEN [a EXCEPT !.exit = TRUE]
    ELSE IF key.kind = "Press" /\ IsChar(key, "c")
    THEN [a EXCEPT !.progress_bar_color = IF @ = "Magenta" THEN "Yellow" ELSE "Magenta"]
    ELSE a

(* the match on rx.recv() in App::run *)
Received(a, e) ==
    IF e.kind = "Input" THEN HandleKeyEvent(a, e.key)
    ELSE [a EXCEPT !.background_progress = e.value]

(* rx is owned by App::run and dropped when run returns; the process, and
   every thread with it, ends when main returns *)
RxDropped == mainPc \in {"returned", "restored"}

ProcessEnded == mainPc = "exited"

(* main up to the call of run: the channel, the two threads, the App *)
BackgroundInit ==
    /\ mainPc = "recv"
    /\ app = [exit |-> FALSE, progress_bar_color |-> "Magenta", background_progress |-> 0]
    /\ queue = <<>>
    /\ inputPc = "loop"
    /\ progressPc = "loop"
    /\ progress = 0
    /\ appResult = "none"

(* one iteration of the loop of App::run: recv, the match, the draw and the
   loop test; run returns Ok(()) when exit is set *)
AppRun ==
    /\ mainPc = "recv"
    /\ queue # <<>>
    /\ \E a \in {Received(app, Head(queue))} :
        /\ app' = a
        /\ IF a.exit
           THEN mainPc' = "returned" /\ appResult' = "ok" /\ queue' = <<>>
           ELSE mainPc' = "recv" /\ appResult' = appResult /\ queue' = Tail(queue)
    /\ UNCHANGED <<inputPc, progressPc, progress>>
    /\ UNCHANGED <<ratatopVars, todoVars>>

(* an iteration whose terminal.draw(..)? fails: run returns the error *)
AppRunFail ==
    /\ mainPc = "recv"
    /\ queue # <<>>
    /\ app' = Received(app, Head(queue))
    /\ mainPc' = "returned"
    /\ appResult' = "err"
    /\ queue' = <<>>
    /\ UNCHANGED <<inputPc, progressPc, progress>>
    /\ UNCHANGED <<ratatopVars, todoVars>>

(* main after run: ratatui::restore() *)
BackgroundRestore ==
    /\ mainPc = "returned"
    /\ mainPc' = "restored"
    /\ UNCHANGED <<app, queue, inputPc, progressPc, progress, appResult>>
    /\ UNCHANGED <<ratatopVars, todoVars>>

(* main returns app_result and the process ends *)
ProcessExit ==
    /\ mainPc = "restored"
    /\ mainPc' = "exited"
    /\ UNCHANGED <<app, queue, inputPc, progressPc, progress, appResult>>
    /\ UNCHANGED <<ratatopVars, todoVars>>

(* handle_input_events: a key is read and sent; send fails once rx is dropped
   and the unwrap panics *)
HandleInputEvents(keys) ==
    /\ inputPc = "loop"
    /\ ~ProcessEnded
    /\ \E key \in keys :
        IF RxDropped
        THEN inputPc' = "panicked" /\ queue' = queue
        ELSE /\ Len(queue) < MaxQueue
             /\ queue' = Append(queue, InputEvent(key))
             /\ inputPc' = inputPc
    /\ UNCHANGED <<mainPc, app, progressPc, progress, appResult>>
    /\ UNCHANGED <<ratatopVars, todoVars>>

(* run_background_thread: sleep, step the progress, send it *)
RunBackgroundThread ==
    /\ progressPc = "loop"
    /\ ~ProcessEnded
    /\ \E p \in {IF progress + Increment < FullProgress
                 THEN progress + Increment ELSE FullProgress} :
        /\ progress' = p
        /\ IF RxDropped
           THEN progressPc' = "panicked" /\ queue' = queue
           ELSE /\ Len(queue) < MaxQueue
                /\ queue' = Append(queue, ProgressEvent(p))
                /\ progressPc' = progressPc
    /\ UNCHANGED <<mainPc, app, inputPc, appResult>>
    /\ UNCHANGED <<ratatopVars, todoVars>>

----------------------------------------------------------------------------
(* ratatop: the program *)

InitWith(tables) ==
    /\ pc = "start"
    /\ running = FALSE
    /\ frameCount = 0
    /\ procs \in tables
    /\ globalCpu = 0
    /\ cpu = <<>>
    /\ selected = None
    /\ textarea = EmptyTextArea
    /\ search = FALSE
    /\ ev = NoEvent
    /\ drawn = [rows |-> <<>>, selected |-> None]
    /\ shown = [rows |-> <<>>, selected |-> None]
    /\ result = "none"
    /\ restored = 0
    /\ status = "none"
    /\ telemetry = [full |-> <<>>, cpuCalls |-> 0]

(* run, before the loop *)
Start ==
    /\ pc = "start"
    /\ running' = TRUE
    /\ selected' = Some(0)
    /\ pc' = "draw"
    /\ UNCHANGED <<frameCount, procs, globalCpu, cpu, textarea, search, ev, drawn, shown,
                   result, restored, status, telemetry>>
    /\ UNCHANGED <<todoVars, backgroundVars>>

(* while self.running: the loop ends when the flag is found cleared, and
   run returns Ok(()) *)
Exit ==
    /\ pc = "draw"
    /\ ~running
    /\ pc' = "done"
    /\ result' = "ok"
    /\ UNCHANGED <<running, frameCount, procs, globalCpu, cpu, selected, textarea,
                   search, ev, drawn, shown, restored, status, telemetry>>
    /\ UNCHANGED <<todoVars, backgroundVars>>

(* a main that ends with Ok(()) whatever run returned *)
MainResultOk(res) == "ok"

(* what main returns: the result of run *)
MainResult(res) == res

(* a program that restores the terminal both on leaving the loop and in main *)
MainEndRestoringTwice ==
    /\ pc = "done"
    /\ restored' = restored + 2
    /\ status' = result
    /\ pc' = "ended"
    /\ UNCHANGED <<running, frameCount, procs, globalCpu, cpu, selected, textarea,
                   search, ev, drawn, shown, result, telemetry>>
    /\ UNCHANGED <<todoVars, backgroundVars>>

(* main after run has returned: ratatui::restore(), then the result *)
MainEnd ==
    /\ pc = "done"
    /\ restored' = restored + 1
    /\ status' = MainResult(result)
    /\ pc' = "ended"
    /\ UNCHANGED <<running, frameCount, procs, globalCpu, cpu, selected, textarea,
                   search, ev, drawn, shown, result, telemetry>>
    /\ UNCHANGED <<todoVars, backgroundVars>>

Draw == DrawPass(Tables, CpuLevels, MaxFrames)

Events == HandleCrosstermEvents(AllEvents)

Init == InitWith(Tables) /\ TodoInit /\ BackgroundInit

Failure == DrawFail(Tables, CpuLevels, MaxFrames)

Next == Start \/ Draw \/ Failure \/ Events \/ Exit \/ MainEnd

Spec == Init /\ [][Next]_vars

(* a long run on a quiet machine with an operator who only navigates *)
LongDraw == DrawPass(IdleTables, IdleLevels, MaxLongFrames)

LongEvents == HandleCrosstermEvents(IdleEvents)

InitLong == InitWith(IdleTables) /\ TodoInit /\ BackgroundInit

LongFailure == DrawFail(IdleTables, IdleLevels, MaxLongFrames)

NextLong == Start \/ LongDraw \/ LongFailure \/ LongEvents \/ Exit \/ MainEnd

SpecLong == InitLong /\ [][NextLong]_vars

(* a run past the second full refresh with an operator who searches and
   navigates *)
RefreshDraw == DrawPass(IdleTables, IdleLevels, MaxRefreshFrames)

RefreshFailure == DrawFail(IdleTables, IdleLevels, MaxRefreshFrames)

RefreshEvents == HandleCrosstermEvents(SearchEvents)

NextRefresh == Start \/ RefreshDraw \/ RefreshFailure \/ RefreshEvents \/ Exit \/ MainEnd

SpecRefresh == InitLong /\ [][NextRefresh]_vars

(* a run where the load changes, the operator navigates or does nothing, and
   the program makes progress: event::poll returns after 60 ms when no event
   has arrived, and a loop that can take its next step does *)
CadenceDraw == DrawPass(IdleTables, LoadLevels, MaxFrames)

CadenceFailure == DrawFail(IdleTables, LoadLevels, MaxFrames)

(* a poll that waits for an event without a timeout *)
WaitWithoutTimeout == HandleCrosstermEvents({})

(* event::poll(60 ms) returning false: no event arrived in time *)
Timeout == HandleCrosstermEvents({NoEvent})

(* event::poll returning true, and the event read *)
KeyArrives == HandleCrosstermEvents(IdleEvents \ {NoEvent})

NextCadence ==
    Start \/ CadenceDraw \/ CadenceFailure \/ Timeout \/ KeyArrives \/ Exit \/ MainEnd

(* a draw pass that ends without an error: the steps of CadenceDraw are the
   steps of the program that fit, and it is enabled where CadenceDraw is *)
DrawCompletes ==
    /\ pc = "draw"
    /\ running
    /\ frameCount < MaxFrames
    /\ pc' = "events"

(* every step of the program moves pc, so a step that changes pc is any step *)
Progress ==
    /\ WF_pc(Start)
    /\ WF_pc(DrawCompletes)
    /\ WF_pc(Timeout)
    /\ WF_pc(Exit)
    /\ WF_pc(MainEnd)

SpecCadence == InitLong /\ [][NextCadence]_vars /\ Progress

(* tomato_todo and background_process run with ratatop not started *)
InitOthers == InitWith({<<>>}) /\ TodoInit /\ BackgroundInit

TodoRun == TodoRead(TodoEvents)

NextTodo == TodoDraw \/ TodoRun \/ TodoFail

SpecTodo == InitOthers /\ [][NextTodo]_vars

InputThread == HandleInputEvents(BackgroundKeys)

NextBackground ==
    AppRun \/ AppRunFail \/ BackgroundRestore \/ ProcessExit \/ InputThread
        \/ RunBackgroundThread

SpecBackground == InitOthers /\ [][NextBackground]_vars

----------------------------------------------------------------------------
(* What the claims read *)

(* the rows the filter/sort step yields on the current table and query *)
FilteredRows == RenderRows(procs, QueryText(textarea))

AfterDraw == pc = "events"

(* the step is one pass of handle_crossterm_events *)
EventStep == pc = "events" /\ pc' = "draw"

(* the step is one draw pass that did not fail *)
DrawStep == pc = "draw" /\ pc' = "events"

(* the step handles the press of an s that toggles the mode *)
ToggleStep == EventStep /\ IsPress(ev') /\ IsToggleKey(ev')

(* the step handles the press of a j or a k *)
NavigationStep == EventStep /\ IsPress(ev') /\ (IsNextKey(ev') \/ IsPreviousKey(ev'))

(* the step is the draw pass that follows a j (a k) pressed in Normal mode
   with the cursor on a row of a non-empty list *)
DrawAfterNext ==
    /\ DrawStep /\ ~search /\ IsPress(ev) /\ IsNextKey(ev)
    /\ drawn.rows # <<>> /\ IsSome(drawn.selected)

DrawAfterPrevious ==
    /\ DrawStep /\ ~search /\ IsPress(ev) /\ IsPreviousKey(ev)
    /\ drawn.rows # <<>> /\ IsSome(drawn.selected)

(* the step handles a Backspace pressed in Search mode *)
BackspaceStep == EventStep /\ search /\ ev' = Press("Backspace")

(* the cursor of the search box is at the end of the query text *)
AtEndOfQuery(ta) == ta.row = 1 /\ ta.col = Len(QueryText(ta))

ButLast(text) == IF text = <<>> THEN <<>> ELSE SubSeq(text, 1, Len(text) - 1)

(* the step handles the press of a key the design quits on *)
QuitKeyStep ==
    /\ EventStep
    /\ IsPress(ev')
    /\ \/ IsChar(ev', "q")
       \/ ev' = CtrlC
       \/ ev'.code = "Esc" /\ ~search

(* the loop has been left: run has returned or is about to *)
LoopOver == pc \in {"done", "ended"} \/ (pc = "draw" /\ ~running)

(* what the loop works on *)
loopState == <<running, frameCount, procs, globalCpu, cpu, selected, textarea, search,
               ev, drawn, shown, telemetry>>

(* a key press that is no command of the mode: in Normal mode anything but
   q, Esc, Ctrl-C, s, j, k; in Search mode anything but a character key,
   Backspace, Esc or a quit key *)
IsInvalidKey(key, srch) ==
    LET quits == key.code = "Esc" \/ (key.code = "Char" /\ key.ch = "q") \/ key = CtrlC
    IN  IF srch
        THEN ~quits /\ key.code \notin {"Char", "Backspace"}
        ELSE ~quits /\ ~(key.code = "Char" /\ key.ch \in {"s", "j", "k"})

(* the step runs the closure of a draw pass, whether the pass then fails or not *)
ClosureStep == pc = "draw" /\ cpu' # cpu

(* a is b with some of its elements left out *)
IsSubsequence(a, b) ==
    \E f \in [1..Len(a) -> 1..Len(b)] :
        /\ \A i \in 1..Len(a) : a[i] = b[f[i]]
        /\ \A i, j \in 1..Len(a) : i < j => f[i] < f[j]

Min2(a, b) == IF a <= b THEN a ELSE b

Max2(a, b) == IF a >= b THEN a ELSE b

(* the cursor is None on an empty list and a valid index otherwise *)
CursorFits(sel, n) ==
    IF n = 0 THEN sel = None ELSE IsSome(sel) /\ Unwrap(sel) \in 0..(n - 1)

(* the letters that differ in case only *)
CasePairs == { <<"j", "J">>, <<"s", "S">> }

SameLetter(a, b) == a = b \/ <<a, b>> \in CasePairs \/ <<b, a>> \in CasePairs

(* q occurs in cell as a contiguous run of letters, case ignored *)
OccursIgnoringCase(cell, q) ==
    \E k \in 0..(Len(cell) - Len(q)) :
        \A i \in 1..Len(q) : SameLetter(cell[k + i], q[i])

ProcMatches(p, q) ==
    \/ OccursIgnoringCase(Str(p.pid), q)
    \/ OccursIgnoringCase(p.name, q)
    \/ OccursIgnoringCase(F32Str(p.cpu), q)

PidOf(row) == ParseNat(row[1])

----------------------------------------------------------------------------
(* C1: History Buffer bound.  In every reachable state the CPU history    *)
(* holds at most CAPACITY samples.                                         *)
HistoryBounded == Len(cpu) <= CAPACITY

(* C2: FIFO eviction.  After N > CAPACITY pushes the history holds exactly *)
(* CAPACITY samples, the most recent ones in push order, the oldest of     *)
(* them tagged N - CAPACITY.                                               *)
FifoEviction ==
    frameCount > CAPACITY =>
        /\ Len(cpu) = CAPACITY
        /\ \A i \in 1..Len(cpu) : cpu[i][1] = frameCount - CAPACITY + i - 1

(* C3: Selection invariant.  After every draw pass and after every key     *)
(* event the cursor is None if the filtered list is empty and otherwise a  *)
(* valid index of it.                                                      *)
SelectionInvariant ==
    (pc = "events" \/ (pc = "draw" /\ frameCount > 0)) =>
        CursorFits(selected, Len(FilteredRows))

(* C4: Selection re-clamping on shrink.  When one draw pass showed the     *)
(* cursor at c and the next draw pass's filtered list has length m with    *)
(* 0 < m <= c, the cursor after that next draw pass is m - 1.              *)
ReclampOnShrink ==
    (AfterDraw /\ IsSome(shown.selected)
        /\ Len(drawn.rows) > 0 /\ Len(drawn.rows) <= Unwrap(shown.selected))
    => selected = Some(Len(drawn.rows) - 1)

ReclampOnShrinkWitness ==
    /\ AfterDraw
    /\ Len(shown.rows) = 3
    /\ shown.selected = Some(2)
    /\ Len(drawn.rows) = 2
    /\ selected = Some(1)

(* C5: Filter correctness.  A process's row is in the rendered row list if *)
(* and only if its pid string, its name or its cpu string contains the     *)
(* query, case ignored; nothing else is in the list; with the empty query  *)
(* the list is as long as the process table.                               *)
FilterCorrect ==
    AfterDraw =>
        LET q == QueryText(textarea)
            matching == { i \in 1..Len(procs) : ProcMatches(procs[i], q) }
        IN  /\ \A i \in 1..Len(procs) :
                   (\E r \in 1..Len(drawn.rows) : drawn.rows[r] = Cells(procs[i]))
                   <=> i \in matching
            /\ \A r \in 1..Len(drawn.rows) :
                   \E i \in 1..Len(procs) : drawn.rows[r] = Cells(procs[i])
            /\ Len(drawn.rows) = Cardinality(matching)
            /\ q = <<>> => Len(drawn.rows) = Len(procs)

FilterCorrectWitness ==
    /\ AfterDraw
    /\ QueryText(textarea) = <<"J">>
    /\ Len(procs) = 3
    /\ Len(drawn.rows) = 2
    /\ \E r \in 1..2 : drawn.rows[r][2] = <<"j">>

(* C6: Sort order with tie-break.  The row list of every frame is in       *)
(* descending cpu order, rows of equal cpu in ascending pid order.         *)
SortedWithTieBreak ==
    AfterDraw =>
        \A i, j \in 1..Len(drawn.rows) :
            i < j =>
                \/ SortKey(drawn.rows[i]) > SortKey(drawn.rows[j])
                \/ /\ SortKey(drawn.rows[i]) = SortKey(drawn.rows[j])
                   /\ PidOf(drawn.rows[i]) < PidOf(drawn.rows[j])

(* C7: Filter/Sort determinism.  The row list depends on the set of        *)
(* process rows and the query text only: any enumeration order of the same *)
(* processes gives the list that was rendered.                             *)
OrderIndependent ==
    AfterDraw =>
        \A t \in Tables :
            { t[i] : i \in 1..Len(t) } = { procs[i] : i \in 1..Len(procs) }
            => RenderRows(t, QueryText(textarea)) = drawn.rows

(* C8: Esc in Search mode returns to Normal mode and the loop keeps        *)
(* running.                                                                *)
EscLeavesSearch ==
    [][(EventStep /\ search /\ ev' = Press("Esc")) => (~search' /\ running')]_vars

(* C9: A character key pressed in Search mode is appended to the query     *)
(* text and the mode remains Search.                                       *)
CharKeysOnlyEditQuery ==
    [][(EventStep /\ search /\ IsPress(ev') /\ ev'.code = "Char" /\ ~ev'.ctrl)
        => (/\ QueryText(textarea') = Append(QueryText(textarea), ev'.ch)
            /\ search')]_vars

(* C10: Mode isolation.  Leaving Search mode changes neither the cursor    *)
(* nor the filtered list the cursor indexes: the draw pass after the key   *)
(* that left Search, the process table being unchanged, shows the cursor   *)
(* and the list of the draw pass before it.                                *)
ModeIsolation ==
    (AfterDraw /\ IsPress(ev) /\ IsToggleKey(ev) /\ ~search
        /\ ~IsFullRefreshTick(frameCount - 1))
    => (drawn.selected = shown.selected /\ drawn.rows = shown.rows)

(* C11: Selection is mutated only by Normal-mode navigation and by list     *)
(* length changes.  While the mode is Search no key press moves the cursor. *)
SearchKeysKeepCursor ==
    [][(EventStep /\ search) => selected' = selected]_vars

(* C12: Entering Search.  The initial mode is Normal; pressing s in Normal  *)
(* mode makes the mode Search and leaves the cursor, the query text, the    *)
(* CPU history and the running flag unchanged.                              *)
EnteringSearch ==
    /\ ~search
    /\ [][(ToggleStep /\ ~search)
            => (/\ search'
                /\ selected' = selected
                /\ textarea' = textarea
                /\ cpu' = cpu
                /\ running' = running)]_vars

EnteringSearchWitness ==
    /\ pc = "draw"
    /\ ev = CharKey("s")
    /\ search
    /\ running
    /\ QueryText(textarea) # <<>>
    /\ IsSome(selected)
    /\ frameCount = 3
    /\ Len(cpu) = 3

(* C13: Normal-mode navigation, as claimed.  With a non-empty filtered list *)
(* of length n and the cursor at c, j in Normal mode yields min(c+1, n-1)   *)
(* and k yields max(c-1, 0) once the next draw pass has re-clamped; the     *)
(* mode stays Normal and the query text is unchanged.                       *)
NormalNavigationOfOldList ==
    [][/\ (NavigationStep /\ ~search) => (~search' /\ textarea' = textarea)
       /\ DrawAfterNext =>
            selected' = Some(Min2(Unwrap(drawn.selected) + 1, Len(drawn.rows) - 1))
       /\ DrawAfterPrevious =>
            selected' = Some(Max2(Unwrap(drawn.selected) - 1, 0))]_vars

(* C13, amended: the re-clamp is against the list of the next draw pass, of *)
(* length m: j yields min(c+1, m-1), k yields min(max(c-1, 0), m-1), and    *)
(* None when m = 0.                                                         *)
NormalNavigation ==
    [][/\ (NavigationStep /\ ~search) => (~search' /\ textarea' = textarea)
       /\ DrawAfterNext =>
            selected' = IF drawn'.rows = <<>> THEN None
                        ELSE Some(Min2(Unwrap(drawn.selected) + 1, Len(drawn'.rows) - 1))
       /\ DrawAfterPrevious =>
            selected' = IF drawn'.rows = <<>> THEN None
                        ELSE Some(Min2(Max2(Unwrap(drawn.selected) - 1, 0),
                                       Len(drawn'.rows) - 1))]_vars

NormalNavigationWitness ==
    /\ AfterDraw
    /\ ~search
    /\ ev = CharKey("j")
    /\ frameCount = FULL_REFRESH_PERIOD + 1
    /\ Len(shown.rows) = 1
    /\ shown.selected = Some(0)
    /\ Len(drawn.rows) = 2
    /\ selected = Some(1)

QuitEndsLoop ==
    [][/\ QuitKeyStep => ~running'
       /\ (pc = "draw" /\ ~running) => (pc' = "done" /\ result' = "ok")
       /\ LoopOver => UNCHANGED loopState]_vars

QuitEndsLoopWitness ==
    /\ pc = "ended"
    /\ status = "ok"
    /\ ~running
    /\ search
    /\ ev = CtrlC
    /\ frameCount = 3
    /\ Len(cpu) = 3

(* C16: Cooperative cancellation.  The running flag is cleared only while   *)
(* an event is handled and is acted on only at the top of the loop, so a    *)
(* draw pass that started has run all its steps: unless a draw failed, the  *)
(* history, the telemetry calls and the rendered table account for every    *)
(* frame counted, also when the loop has ended.                             *)
CooperativeCancellation ==
    [][/\ (running /\ ~running') => EventStep
       /\ (pc # "done" /\ pc' = "done" /\ result' = "ok")
            => (pc = "draw" /\ ~running /\ UNCHANGED loopState)
       /\ result' # "err" =>
            /\ Len(cpu') = frameCount'
            /\ telemetry'.cpuCalls = frameCount'
            /\ selected' = drawn'.selected \/ pc' = "draw"
       /\ DrawStep =>
            /\ drawn'.rows = RenderRows(procs', QueryText(textarea'))
            /\ selected' = drawn'.selected]_vars

CooperativeCancellationWitness ==
    /\ pc = "done"
    /\ result = "ok"
    /\ ~running
    /\ ev = CharKey("q")
    /\ frameCount = 2
    /\ Len(cpu) = 2
    /\ drawn.rows = FilteredRows

(* C17: Idempotent quit.  The terminal is restored exactly once per run,    *)
(* after the loop has ended, and no event is handled once the running flag  *)
(* is cleared.                                                              *)
IdempotentQuit ==
    /\ restored \in {0, 1}
    /\ restored = 1 <=> pc = "ended"
    /\ pc = "events" => running
    /\ pc = "ended" => (~running \/ result = "err")

IdempotentQuitWitness ==
    /\ pc = "ended"
    /\ restored = 1
    /\ result = "ok"
    /\ ~running
    /\ ev = CharKey("q")

(* C18: Fatal render failure.  A failed draw pass ends the loop at once: no *)
(* event is polled and no draw pass runs after it, run returns the error,   *)
(* the terminal is restored exactly once and main returns the error.        *)
FatalRenderFailure ==
    [][/\ (result # "err" /\ result' = "err") => (pc = "draw" /\ pc' = "done")
       /\ result = "err" =>
            /\ UNCHANGED loopState
            /\ pc = "done" /\ restored = 0
            /\ pc' = "ended" /\ restored' = 1 /\ status' = "err" /\ result' = "err"]_vars

FatalRenderFailureWitness ==
    /\ pc = "ended"
    /\ result = "err"
    /\ status = "err"
    /\ restored = 1
    /\ running
    /\ frameCount = 2
    /\ Len(cpu) = 3

(* C19: Dual cadence.  Every draw pass refreshes the aggregate CPU, and a   *)
(* draw pass refreshes the process table if and only if its frame counter   *)
(* is a multiple of FULL_REFRESH_PERIOD: the full refreshes are those of    *)
(* the frames 0, 60, 120, ..., whatever keys arrive.                        *)
DualCadence ==
    result # "err" =>
        /\ telemetry.cpuCalls = frameCount
        /\ Len(telemetry.full) =
               (frameCount + FULL_REFRESH_PERIOD - 1) \div FULL_REFRESH_PERIOD
        /\ \A i \in 1..Len(telemetry.full) :
               telemetry.full[i] = FULL_REFRESH_PERIOD * (i - 1)

DualCadenceWitness ==
    /\ AfterDraw
    /\ frameCount = 2 * FULL_REFRESH_PERIOD + 1
    /\ telemetry.full = <<0, FULL_REFRESH_PERIOD, 2 * FULL_REFRESH_PERIOD>>
    /\ ev = CharKey("j")

(* C20: Process list frame condition.  The process list changes only in a   *)
(* draw pass whose frame counter is a multiple of FULL_REFRESH_PERIOD,      *)
(* where it is replaced by a whole table; every other draw pass and every   *)
(* event leaves it unchanged.                                               *)
ProcessListFrame ==
    [][procs' # procs =>
        (/\ pc = "draw"
         /\ frameCount % FULL_REFRESH_PERIOD = 0
         /\ procs' \in IdleTables)]_vars

ProcessListFrameWitness ==
    /\ AfterDraw
    /\ frameCount = FULL_REFRESH_PERIOD + 1
    /\ QueryText(textarea) = <<>>
    /\ Len(shown.rows) = 1
    /\ Len(procs) = 2
    /\ IsPress(ev)

(* C21: Loop phase order.  Every iteration of the loop is the wait phase    *)
(* followed by the draw phase: the loop is entered at the wait phase, so    *)
(* the first draw pass comes after one wait, and a handled key press is     *)
(* followed by the draw pass of its iteration, which the loop is still      *)
(* running to perform.                                                      *)
LoopPhaseOrder ==
    [][/\ pc = "start" => pc' = "events"
       /\ (EventStep /\ ev'.type = "Key" /\ ev'.kind = "Press") => running']_vars

(* C23: Only press events are acted on.  An event that is not a key press   *)
(* (a key release or repeat, a mouse or resize event, no event) changes     *)
(* none of mode, search box, cursor, history and running flag, in either    *)
(* mode and for every key code.                                             *)
OnlyPressActs ==
    [][(EventStep /\ ~(ev'.type = "Key" /\ ev'.kind = "Press"))
        => UNCHANGED <<search, textarea, selected, cpu, running>>]_vars

OnlyPressActsWitness ==
    /\ pc = "draw"
    /\ ev = Key("Esc", "", FALSE, "Release")
    /\ search
    /\ running
    /\ QueryText(textarea) = <<"1">>
    /\ selected = Some(0)
    /\ Len(cpu) = 3

(* C24: Invalid keys are no-ops.  A key press that is no command of the     *)
(* current mode leaves mode, query text, cursor, history and running flag   *)
(* unchanged and produces no error.                                         *)
InvalidKeysAreNoOps ==
    [][(EventStep /\ ev'.type = "Key" /\ ev'.kind = "Press" /\ IsInvalidKey(ev', search))
        => /\ UNCHANGED <<search, selected, cpu, running, result>>
           /\ QueryText(textarea') = QueryText(textarea)]_vars

HistorySeriesShape ==
    /\ [](\A i, j \in 1..Len(cpu) : i < j => cpu[i][1] < cpu[j][1])
    /\ [][/\ cpu' # cpu =>
               /\ pc = "draw"
               /\ Len(cpu') = Len(cpu) + 1
               /\ SubSeq(cpu', 1, Len(cpu)) = cpu
               /\ cpu'[Len(cpu')][1] = frameCount
          /\ DrawStep => cpu' # cpu
          /\ EventStep => cpu' = cpu]_vars

HistorySeriesShapeWitness ==
    /\ pc = "draw"
    /\ ev = CharKey("j")
    /\ Len(cpu) = 3
    /\ cpu[1] = <<0, 250>>
    /\ cpu[2] = <<1, 1000>>
    /\ cpu[3][1] = 2

(* C27: Draw-pass step order.  In a draw pass the sample pushed is the      *)
(* aggregate value refreshed in that pass, tagged with the pass's frame     *)
(* counter; the rows rendered are the filter and sort of the process list   *)
(* as refreshed in that pass; and the cursor rendered is already clamped    *)
(* against those rows.                                                      *)
DrawStepOrder ==
    [][ClosureStep =>
        /\ cpu'[Len(cpu')] = <<frameCount, globalCpu'>>
        /\ drawn'.rows = RenderRows(procs', QueryText(textarea))
        /\ drawn'.selected = None \/ Unwrap(drawn'.selected) < Len(drawn'.rows)
        /\ selected' = drawn'.selected]_vars

DrawStepOrderWitness ==
    /\ AfterDraw
    /\ QueryText(textarea) = <<"1">>
    /\ Len(shown.rows) = 3
    /\ shown.selected = Some(1)
    /\ Len(drawn.rows) = 1
    /\ selected = Some(0)
    /\ globalCpu = 250
    /\ cpu[Len(cpu)] = <<frameCount - 1, 250>>

(* C28: First-frame refresh.  The first draw pass has frame counter 0: it   *)
(* refreshes the process table and pushes the sample with x = 0; the k-th   *)
(* draw pass is a full-refresh tick exactly when k - 1 is a multiple of     *)
(* FULL_REFRESH_PERIOD.                                                     *)
FirstFrameRefresh ==
    /\ [](cpu # <<>> =>
            (cpu[1][1] = 0 /\ telemetry.full # <<>> /\ telemetry.full[1] = 0))
    /\ [][ClosureStep =>
            LET k == Len(cpu')
            IN  /\ k = telemetry'.cpuCalls
                /\ telemetry'.full # telemetry.full <=> (k - 1) % FULL_REFRESH_PERIOD = 0]_vars

FirstFrameRefreshWitness ==
    /\ AfterDraw
    /\ frameCount = FULL_REFRESH_PERIOD + 1
    /\ Len(cpu) = FULL_REFRESH_PERIOD + 1
    /\ cpu[1] = <<0, 0>>
    /\ telemetry.full = <<0, FULL_REFRESH_PERIOD>>
    /\ ev = NoEvent

(* C29: One key per frame.  An event is handled only right after a draw    *)
(* pass, so when it is handled the cursor is the one that pass rendered,    *)
(* None or a valid index of the rendered list, and after the event the      *)
(* cursor is at most one past the last index of that list.                  *)
OneKeyPerFrame ==
    [][/\ pc' = "events" => pc = "draw"
       /\ EventStep =>
            /\ selected = drawn.selected
            /\ selected = None \/ Unwrap(selected) < Len(drawn.rows)
            /\ selected' = None \/ Unwrap(selected') <= Len(drawn.rows)]_vars

(* C29 as amended: after the event the cursor is at most one past the last  *)
(* index of the rendered list, or it is usize::MAX after a k pressed while  *)
(* the cursor was None.                                                     *)
OneKeyPerFrameOrWrap ==
    [][/\ pc' = "events" => pc = "draw"
       /\ EventStep =>
            /\ selected = drawn.selected
            /\ selected = None \/ Unwrap(selected) < Len(drawn.rows)
            /\ \/ selected' = None
               \/ Unwrap(selected') <= Len(drawn.rows)
               \/ /\ selected = None
                  /\ ev' \in {CharKey("k")}
                  /\ selected' = Some(UsizeMax)]_vars

OneKeyPerFrameOrWrapWitness ==
    /\ pc = "draw"
    /\ ev = CharKey("k")
    /\ drawn.rows = <<>>
    /\ drawn.selected = None
    /\ selected = Some(UsizeMax)

(* C30: Filter preserves sort order.  The rendered row list is a            *)
(* subsequence of the row list the same process table gives with the empty  *)
(* query, which holds every process, and it is the same list whether the    *)
(* rows are filtered after the sort or before it.                           *)
FilterPreservesOrder ==
    AfterDraw =>
        LET all == RenderRows(procs, <<>>)
        IN  /\ Len(all) = Len(procs)
            /\ IsSubsequence(drawn.rows, all)
            /\ drawn.rows = SortRows(SelectSeq(RowsOf(procs),
                                LAMBDA row : RowMatches(row, QueryText(textarea))))

FilterPreservesOrderWitness ==
    /\ AfterDraw
    /\ QueryText(textarea) = <<"j">>
    /\ Len(procs) = 3
    /\ procs[1].pid = 17
    /\ Len(drawn.rows) = 2

(* C31: Query persistence.  No mode transition changes the query text: it   *)
(* is the same text after the key that enters Search mode and after the key *)
(* that returns to Normal mode, no key changes it in Normal mode, and every *)
(* draw pass filters with it whatever the mode.                             *)
QueryPersistence ==
    [][/\ (EventStep /\ search' # search) => QueryText(textarea') = QueryText(textarea)
       /\ (EventStep /\ ~search) => textarea' = textarea
       /\ ClosureStep => drawn'.rows = RenderRows(procs', QueryText(textarea))]_vars

(* C32: tomato_todo delete safety.  Whenever D removes an item the cursor   *)
(* is a valid index of the list: items.remove is never called with an index *)
(* past the end, also for keys typed while the add-new form is open.        *)
DeleteSafety == todoPc # "panicked"

(* C33: background_process channel shutdown.  After the main loop has left  *)
(* on q and dropped the receiver, neither producer thread sends on the      *)
(* channel: no send fails and no unwrap panics.                             *)
ChannelShutdown == app.exit => (inputPc # "panicked" /\ progressPc # "panicked")

====
